---- MODULE Spec2Model ----
(***************************************************************************)
(* Model of plex_mpv_shim/player.py: the PlayerManager (the Controller),   *)
(* its re-entrant lock, its deferred task queue (evt_queue), the scrobble  *)
(* policy of update() and the auto-advance logic of finished_callback().   *)
(*                                                                         *)
(* Two threads run the code: the driving thread "drv" (the caller of       *)
(* update(), play(), stop(), toggle_pause()) and the playback engine's     *)
(* event thread "eng", which runs the callbacks registered in __init__     *)
(* and delivers property changes to wait_for_property().                   *)
(***************************************************************************)
EXTENDS Integers, Sequences, FiniteSets, TLC

----------------------------------------------------------------------------
(* Bounds of the model *)

NumVideos == 2
MaxParts == 2
MaxTasks == 2

(* Program constants *)

SCROBBLE_INTERVAL == 5
COMPLETE_PERCENT_NUM == 95
COMPLETE_PERCENT_DEN == 100
FIVE_MINUTES == 300
auto_play == TRUE

(* The media fixture: every item lasts Duration seconds; the engine's      *)
(* playback_time is sampled at the Positions below.                        *)

Duration == 400
Positions == {0, 301, 380}
Offsets == {0, 300}

None == 0
Videos == 1..NumVideos

VARIABLES
    _video,       \* self._video: the current Session's video, or None
    part,         \* self.__part
    url,          \* self.url: None or the URL of a video (named by the video)
    player,       \* the engine: playback_abort, pause, playback_time, ...
    played,       \* self._video.played: the played flag of the Session's video object
    last_update,  \* seconds elapsed on the Timer self.last_update
    evt_queue,    \* self.evt_queue: sequence of [func, args]; history: id, and
                  \* ended, the video whose end of stream a finished_callback
                  \* task was put for
    lock,         \* self._lock (RLock): [owner, count]
    pc,           \* position of the two threads
    frame,        \* the play() call the driving thread is blocked in; new: the
                  \* video argument is another object than self._video
    calls,        \* collaborator calls made by the latest step
    nextId,       \* history: id given to the next task put on the queue
    lastRun,      \* history: id of the task update() ran last
    drainLeft,    \* history: queue length when the running update() began,
                  \* less the tasks that update() has run so far
    scrobbled     \* history: the scrobble step of update() has called
                  \* set_played() for the video object of the Session

vars == <<_video, part, url, player, played, last_update, evt_queue, lock,
          pc, frame, calls, nextId, lastRun, drainLeft, scrobbled>>

----------------------------------------------------------------------------
(* Video and parent container objects *)

(* What the server answers to is_multipart(), select_part(n) and           *)
(* get_playback_url() is an input of the call: in.multipart, in.partok,    *)
(* in.urlok.  No item has more than MaxParts parts.                        *)
Inputs == [multipart : BOOLEAN, partok : BOOLEAN, urlok : BOOLEAN]
is_multipart(v, in) == in.multipart
select_part(v, n, in) == in.partok /\ n <= MaxParts
UrlInputs == {in \in Inputs : ~in.multipart /\ ~in.partok}
(* the inputs a task reads: finished_callback all three, unwatched_quit    *)
(* none, the others the playback URL                                       *)
InputsOf(func) ==
    IF func = "finished_callback" THEN Inputs
    ELSE IF func = "unwatched_quit" THEN {in \in UrlInputs : in.urlok}
    ELSE UrlInputs
has_next(v) == v < NumVideos
has_prev(v) == v > 1
get_next(v) == v + 1
get_prev(v) == v - 1
(* parent.get_from_key(key): the sibling with that key, or None; callers   *)
(* ask for the first sibling and for a key the container does not hold     *)
Keys == {1, NumVideos + 1}
get_from_key(key) == IF key \in Videos THEN key ELSE None
get_audio_idx(v) == 1
get_subtitle_idx(v) == IF v = 1 THEN None ELSE 1

(* The stream identifiers a caller of set_streams() passes: NoUid is the  *)
(* omitted argument (None), "" the explicit empty id.  audio_seq(v) and    *)
(* subtitle_seq(v) are video v's tables from stream id to engine index:    *)
(* the first video has no subtitle stream, the others have the stream "s1" *)
(* that is also their preferred one.                                       *)
NoUid == "None"
StreamArgs == {<<NoUid, NoUid>>, <<NoUid, "">>, <<"a1", "s1">>}
audio_seq(v) == [uid \in {"a1"} |-> get_audio_idx(v)]
subtitle_seq(v) == [uid \in IF get_subtitle_idx(v) # None THEN {"s1"} ELSE {}
                     |-> get_subtitle_idx(v)]

Call(op, v, n) == [op |-> op, v |-> v, n |-> n]

(* The part of the state a Controller method works on, as one record *)

Cur == [video |-> _video, part |-> part, url |-> url, player |-> player,
        played |-> played, last_update |-> last_update, calls |-> <<>>,
        scrobbled |-> scrobbled]

Commit(s) ==
    /\ _video' = s.video
    /\ part' = s.part
    /\ url' = s.url
    /\ player' = s.player
    /\ played' = s.played
    /\ last_update' = s.last_update
    /\ calls' = s.calls
    /\ scrobbled' = s.scrobbled

Done(s) == [st |-> s, out |-> "done", v |-> None, off |-> 0, depth |-> 0]
Raise(s) == [st |-> [s EXCEPT !.calls = Append(@, Call("raise", 0, 0))],
             out |-> "raise", v |-> None, off |-> 0, depth |-> 0]
Wait(s, v, off, d) == [st |-> s, out |-> "wait", v |-> v, off |-> off, depth |-> d]

set_played(s, v, watched) ==
    [s EXCEPT !.played = watched,
              !.calls = Append(@, Call("set_played", v, IF watched THEN 1 ELSE 0))]

update_position(s, v, position) ==
    [s EXCEPT !.calls = Append(@, Call("update_position", v, position))]

----------------------------------------------------------------------------
(* PlayerManager.play, up to the wait for the duration property.  d is    *)
(* the depth of the re-entrant lock inside play().  The engine drops the   *)
(* file it had when it is told to load another one, so no duration is      *)
(* available until the new file has loaded and the wait does block.        *)

play(s, v, off, in, d) ==
    LET s1 == [s EXCEPT !.calls = Append(@, Call("play", v, off))]
    IN IF ~in.urlok
       THEN Done([s1 EXCEPT !.url = None])
       ELSE Wait([s1 EXCEPT !.url = v,
                            !.player.loading = TRUE,
                            !.player.time = 0,
                            !.calls = Append(@, Call("engine_play", v, 0))],
                 v, off, d)

(* PlayerManager.play, after wait_for_property("duration") has returned.  *)
(* The subtitle selection 'no' is written -1.  A video object other than   *)
(* the Session's comes unplayed.                                           *)

play_finish(s, v, off, new) ==
    [s EXCEPT !.played = IF new THEN FALSE ELSE @,
              !.scrobbled = IF new THEN FALSE ELSE @,
              !.player.fs = TRUE,
              !.player.time = IF off > 0 THEN off ELSE @,
              !.player.audio = IF get_audio_idx(v) # None
                               THEN get_audio_idx(v) ELSE @,
              !.player.sub = IF get_subtitle_idx(v) # None
                             THEN get_subtitle_idx(v) ELSE -1,
              !.player.pause = FALSE,
              !.video = v]

stop_unguarded(s) ==
    IF s.video = None
    THEN s
    ELSE [s EXCEPT !.video = None,
                   !.player.abort = TRUE,
                   !.player.idle_evt = TRUE,
                   !.player.time = 0,
                   !.player.pause = FALSE,
                   !.calls = Append(@, Call("engine_stop", 0, 0))]

stop(s) ==
    IF s.video = None \/ s.player.abort
    THEN s
    ELSE [s EXCEPT !.video = None,
                   !.player.abort = TRUE,
                   !.player.idle_evt = TRUE,
                   !.player.time = 0,
                   !.player.pause = FALSE,
                   !.calls = Append(@, Call("engine_stop", 0, 0))]

toggle_pause(s) ==
    IF ~s.player.abort
    THEN [s EXCEPT !.player.pause = ~@]
    ELSE s

get_state_pause_first(s) ==
    IF s.player.pause THEN "paused"
    ELSE IF s.player.abort THEN "stopped"
    ELSE "playing"

get_state(s) ==
    IF s.player.abort THEN "stopped"
    ELSE IF s.player.pause THEN "paused"
    ELSE "playing"

is_paused(s) == IF ~s.player.abort THEN s.player.pause ELSE FALSE

play_next(s, in, d) ==
    IF s.video = None THEN Raise(s)
    ELSE IF has_next(s.video)
         THEN play(s, get_next(s.video), 0, in, d + 1)
         ELSE Done(s)

play_prev(s, in, d) ==
    IF s.video = None THEN Raise(s)
    ELSE IF has_prev(s.video)
         THEN play(s, get_prev(s.video), 0, in, d + 1)
         ELSE Done(s)

(* skip_to(key); the value it returns is recorded as a call "return_true" *)
(* (with the video it played) or "return_false".  When play() waits, the   *)
(* return follows the wait.                                                *)
skip_to(s, key, in, d) ==
    IF s.video = None THEN Raise(s)
    ELSE LET media == get_from_key(key)
         IN IF media # None
            THEN LET r == play(s, media, 0, in, d + 1)
                 IN IF r.out = "done"
                    THEN Done([r.st EXCEPT !.calls =
                                  Append(@, Call("return_true", media, 0))])
                    ELSE r
            ELSE Done([s EXCEPT !.calls = Append(@, Call("return_false", key, 0))])

(* set_streams(audio_uid, sub_uid); a lookup in the subtitle table is     *)
(* recorded as the call "subtitle_seq".  A lookup of an id the table does  *)
(* not hold raises KeyError, a lookup with no Session AttributeError.      *)
set_streams(s, audio_uid, sub_uid) ==
    LET a == IF audio_uid # NoUid
             THEN IF s.video # None /\ audio_uid \in DOMAIN audio_seq(s.video)
                  THEN Done([s EXCEPT !.player.audio = audio_seq(s.video)[audio_uid]])
                  ELSE Raise(s)
             ELSE Done(s)
        s1 == a.st
    IN IF a.out = "raise" THEN a
       ELSE IF sub_uid # NoUid
            THEN LET s2 == [s1 EXCEPT !.calls =
                               Append(@, Call("subtitle_seq", s1.video, 0))]
                 IN IF s1.video # None /\ sub_uid \in DOMAIN subtitle_seq(s1.video)
                    THEN Done([s2 EXCEPT !.player.sub = subtitle_seq(s1.video)[sub_uid]])
                    ELSE Raise(s2)
            ELSE IF sub_uid = ""
                 THEN Done([s1 EXCEPT !.player.sub = -1])
                 ELSE Done(s1)

finished_callback_unguarded(s, in, d) ==
    LET s1 == set_played(s, s.video, TRUE)
        next_part == s1.part + 1
    IN IF is_multipart(s1.video, in)
       THEN LET ok == select_part(s1.video, next_part, in)
                s2 == [s1 EXCEPT !.calls =
                          Append(@, Call(IF ok THEN "select_part_ok"
                                               ELSE "select_part_fail",
                                         s1.video, next_part))]
            IN IF ok
               THEN play([s2 EXCEPT !.part = next_part],
                         s2.video, 0, in, d + 1)
               ELSE Done(s2)
       ELSE IF has_next(s1.video) /\ auto_play
            THEN play(s1, get_next(s1.video), 0, in, d + 1)
            ELSE Done(s1)

finished_callback_keeps_part(s, in, d) ==
    IF s.video = None THEN Done(s)
    ELSE LET s1 == set_played(s, s.video, TRUE)
             next_part == s1.part + 1
         IN IF is_multipart(s1.video, in)
            THEN LET ok == select_part(s1.video, next_part, in)
                     s2 == [s1 EXCEPT !.calls =
                               Append(@, Call(IF ok THEN "select_part_ok"
                                                    ELSE "select_part_fail",
                                              s1.video, next_part))]
                 IN IF ok
                    THEN play(s2, s2.video, 0, in, d + 1)
                    ELSE Done(s2)
            ELSE IF has_next(s1.video) /\ auto_play
                 THEN play(s1, get_next(s1.video), 0, in, d + 1)
                 ELSE Done(s1)

finished_callback(s, in, d) ==
    IF s.video = None THEN Done(s)
    ELSE LET s1 == set_played(s, s.video, TRUE)
             next_part == s1.part + 1
         IN IF is_multipart(s1.video, in)
            THEN LET ok == select_part(s1.video, next_part, in)
                     s2 == [s1 EXCEPT !.calls =
                               Append(@, Call(IF ok THEN "select_part_ok"
                                                    ELSE "select_part_fail",
                                              s1.video, next_part))]
                 IN IF ok
                    THEN play([s2 EXCEPT !.part = next_part],
                              s2.video, 0, in, d + 1)
                    ELSE Done(s2)
            ELSE IF has_next(s1.video) /\ auto_play
                 THEN play(s1, get_next(s1.video), 0, in, d + 1)
                 ELSE Done(s1)

watched_skip(s, in, d) ==
    IF s.video = None THEN Done(s)
    ELSE play_next(set_played(s, s.video, TRUE), in, d + 1)

unwatched_quit(s) ==
    IF s.video = None THEN Done(s)
    ELSE Done(stop(set_played(s, s.video, FALSE)))

(* The call func(args) of update(): one deferred task *)

RunTask(func, s, in, d) ==
    CASE func = "play_prev" -> play_prev(s, in, d + 1)
      [] func = "play_next" -> play_next(s, in, d + 1)
      [] func = "watched_skip" -> watched_skip(s, in, d + 1)
      [] func = "unwatched_quit" -> unwatched_quit(s)
      [] func = "finished_callback" -> finished_callback(s, in, d + 1)

(* The scrobble step of update(), after the drain *)

RatioCompleteStrict(position, duration) ==
    position * COMPLETE_PERCENT_DEN > COMPLETE_PERCENT_NUM * duration

RatioComplete(position, duration) ==
    position * COMPLETE_PERCENT_DEN >= COMPLETE_PERCENT_NUM * duration

scrobble_ignores_pause(s) ==
    IF s.video # None /\ ~s.player.abort
    THEN IF s.last_update > SCROBBLE_INTERVAL
         THEN LET position == s.player.time
                  duration == Duration
                  s1 == IF ~s.played
                        THEN IF RatioComplete(position, duration)
                             THEN [set_played(s, s.video, TRUE)
                                     EXCEPT !.scrobbled = TRUE]
                             ELSE IF position > FIVE_MINUTES
                                  THEN update_position(s, s.video, position)
                                  ELSE s
                        ELSE s
              IN [s1 EXCEPT !.last_update = 0]
         ELSE s
    ELSE s

scrobble(s) ==
    IF s.video # None /\ ~s.player.abort
    THEN IF s.last_update > SCROBBLE_INTERVAL /\ ~is_paused(s)
         THEN LET position == s.player.time
                  duration == Duration
                  s1 == IF ~s.played
                        THEN IF RatioComplete(position, duration)
                             THEN [set_played(s, s.video, TRUE)
                                     EXCEPT !.scrobbled = TRUE]
                             ELSE IF position > FIVE_MINUTES
                                  THEN update_position(s, s.video, position)
                                  ELSE s
                        ELSE s
              IN [s1 EXCEPT !.last_update = 0]
         ELSE s
    ELSE s

----------------------------------------------------------------------------
(* The lock and the queue *)

Free == [owner |-> "none", count |-> 0]
Held(t, n) == [owner |-> t, count |-> n]
CanAcquire(t) == lock.owner \in {"none", t}

QueueGetLast(q) == [item |-> q[Len(q)], rest |-> SubSeq(q, 1, Len(q) - 1)]

QueueGet(q) == [item |-> Head(q), rest |-> Tail(q)]

put_task(func) ==
    /\ nextId <= MaxTasks
    /\ evt_queue' = Append(evt_queue,
                           [func |-> func, args |-> <<>>, id |-> nextId,
                            ended |-> IF func = "finished_callback"
                                      THEN _video ELSE None])
    /\ nextId' = nextId + 1

NoFrame == [v |-> None, off |-> 0, ret |-> "none", new |-> FALSE]


----------------------------------------------------------------------------
(* State after PlayerManager.__init__ *)

Init ==
    /\ _video = None
    /\ part = 1
    /\ url = None
    /\ player = [abort |-> TRUE, pause |-> FALSE, loading |-> FALSE,
                 time |-> 0, fs |-> FALSE, audio |-> 0, sub |-> 0,
                 idle_evt |-> FALSE]
    /\ played = FALSE
    /\ last_update = 0
    /\ evt_queue = <<>>
    /\ lock = Free
    /\ pc = [drv |-> "idle", eng |-> "idle"]
    /\ frame = NoFrame
    /\ calls = <<>>
    /\ nextId = 1
    /\ lastRun = 0
    /\ drainLeft = 0
    /\ scrobbled = FALSE

hist == <<nextId, lastRun, drainLeft>>

----------------------------------------------------------------------------
(* The driving thread *)

(* update(): the lock is taken; the drain loop is about to start *)
UpdateBegin ==
    /\ pc.drv = "idle"
    /\ CanAcquire("drv")
    /\ lock' = Held("drv", 1)
    /\ pc' = [pc EXCEPT !.drv = "drain"]
    /\ drainLeft' = Len(evt_queue)
    /\ calls' = <<>>
    /\ UNCHANGED <<_video, part, url, player, played, last_update, evt_queue,
                   frame, nextId, lastRun, scrobbled>>

(* update(): one iteration of the loop, evt_queue.get() and func(args) *)
DrainStep ==
    /\ pc.drv = "drain"
    /\ evt_queue # <<>>
    /\ \E in \in InputsOf(QueueGet(evt_queue).item.func) :
         LET g == QueueGet(evt_queue)
             r == RunTask(g.item.func, Cur, in, 1)
         IN /\ evt_queue' = g.rest
            /\ lastRun' = g.item.id
            /\ Commit(r.st)
            /\ CASE r.out = "done" ->
                      /\ drainLeft' = drainLeft - 1
                      /\ UNCHANGED <<pc, lock, frame>>
                 [] r.out = "raise" ->
                      /\ pc' = [pc EXCEPT !.drv = "idle"]
                      /\ lock' = Free
                      /\ drainLeft' = 0
                      /\ UNCHANGED frame
                 [] r.out = "wait" ->
                      /\ pc' = [pc EXCEPT !.drv = "play_wait"]
                      /\ lock' = Held("drv", r.depth)
                      /\ frame' = [v |-> r.v, off |-> r.off, ret |-> "drain",
                                  new |-> r.v # _video]
                      /\ drainLeft' = drainLeft - 1
    /\ UNCHANGED nextId

(* update(): the queue is empty, the scrobble step runs, the lock is freed *)
UpdateFinish ==
    /\ pc.drv = "drain"
    /\ evt_queue = <<>>
    /\ Commit(scrobble(Cur))
    /\ lock' = Free
    /\ pc' = [pc EXCEPT !.drv = "idle"]
    /\ drainLeft' = 0
    /\ UNCHANGED <<evt_queue, frame, nextId, lastRun>>

(* play(video, offset) called by the driving thread *)
PlayCall ==
    /\ pc.drv = "idle"
    /\ CanAcquire("drv")
    /\ \E v \in Videos, in \in UrlInputs, off \in Offsets :
         LET r == play(Cur, v, off, in, 1)
         IN /\ Commit(r.st)
            /\ IF r.out = "wait"
               THEN /\ pc' = [pc EXCEPT !.drv = "play_wait"]
                    /\ lock' = Held("drv", r.depth)
                    /\ frame' = [v |-> r.v, off |-> r.off, ret |-> "top",
                                new |-> TRUE]
               ELSE UNCHANGED <<pc, lock, frame>>
    /\ UNCHANGED <<evt_queue, hist>>

(* play(): the engine's event thread runs the observer of                 *)
(* wait_for_property("duration"), the wait returns and play() runs to its  *)
(* end.  The lock is held throughout, so the rest of play() is one step    *)
(* with the delivery.  The event thread handles events in the order the    *)
(* engine emitted them: an idle event still pending was emitted before the *)
(* load command, so handle_end runs before the duration is delivered.      *)
PlayResume ==
    /\ pc.drv = "play_wait"
    /\ pc.eng = "idle"
    /\ player.loading
    /\ ~player.idle_evt
    /\ LET s == play_finish([Cur EXCEPT !.player.loading = FALSE,
                                         !.player.abort = FALSE],
                            frame.v, frame.off, frame.new)
       IN Commit(IF frame.ret = "skip_to"
                 THEN [s EXCEPT !.calls = Append(@, Call("return_true", frame.v, 0))]
                 ELSE s)
    /\ frame' = NoFrame
    /\ IF frame.ret = "drain"
       THEN /\ pc' = [pc EXCEPT !.drv = "drain"]
            /\ lock' = Held("drv", 1)
       ELSE /\ pc' = [pc EXCEPT !.drv = "idle"]
            /\ lock' = Free
    /\ UNCHANGED <<evt_queue, hist>>

(* skip_to(key) called by the driving thread *)
SkipToCall ==
    /\ pc.drv = "idle"
    /\ CanAcquire("drv")
    /\ \E key \in Keys, in \in UrlInputs :
         LET r == skip_to(Cur, key, in, 1)
         IN /\ Commit(r.st)
            /\ IF r.out = "wait"
               THEN /\ pc' = [pc EXCEPT !.drv = "play_wait"]
                    /\ lock' = Held("drv", r.depth)
                    /\ frame' = [v |-> r.v, off |-> r.off, ret |-> "skip_to",
                                new |-> r.v # _video]
               ELSE UNCHANGED <<pc, lock, frame>>
    /\ UNCHANGED <<evt_queue, hist>>

(* set_streams(audio_uid, sub_uid) called by the driving thread *)
SetStreamsWith(audio_uid, sub_uid) ==
    /\ pc.drv = "idle"
    /\ CanAcquire("drv")
    /\ Commit(set_streams(Cur, audio_uid, sub_uid).st)
    /\ UNCHANGED <<evt_queue, lock, pc, frame, hist>>

SetStreams == \E a \in StreamArgs : SetStreamsWith(a[1], a[2])

(* stop() called by the driving thread *)
StopCall ==
    /\ pc.drv = "idle"
    /\ CanAcquire("drv")
    /\ Commit(stop(Cur))
    /\ UNCHANGED <<evt_queue, lock, pc, frame, hist>>

(* toggle_pause() called by the driving thread *)
TogglePause ==
    /\ pc.drv = "idle"
    /\ CanAcquire("drv")
    /\ Commit(toggle_pause(Cur))
    /\ UNCHANGED <<evt_queue, lock, pc, frame, hist>>

----------------------------------------------------------------------------
(* The engine's event thread: the callbacks registered in __init__ *)

ctl == <<_video, part, url, player, played, last_update, scrobbled>>

(* what a callback that only calls put_task leaves alone *)
enq_frame == <<ctl, lock, pc, frame, lastRun, drainLeft>>

(* key '<' *)
handle_prev ==
    /\ pc.eng = "idle"
    /\ put_task("play_prev")
    /\ calls' = <<>>
    /\ UNCHANGED enq_frame

(* key '>' *)
handle_next ==
    /\ pc.eng = "idle"
    /\ put_task("play_next")
    /\ calls' = <<>>
    /\ UNCHANGED enq_frame

(* key 'w' *)
handle_watched ==
    /\ pc.eng = "idle"
    /\ put_task("watched_skip")
    /\ calls' = <<>>
    /\ UNCHANGED enq_frame

(* key 'u' *)
handle_unwatched ==
    /\ pc.eng = "idle"
    /\ put_task("unwatched_quit")
    /\ calls' = <<>>
    /\ UNCHANGED enq_frame

(* key 'q': self.stop(), which first takes the lock *)
handle_stop ==
    /\ pc.eng = "idle"
    /\ IF CanAcquire("eng")
       THEN /\ Commit(stop(Cur))
            /\ UNCHANGED pc
       ELSE /\ pc' = [pc EXCEPT !.eng = "stop_wait"]
            /\ calls' = <<>>
            /\ UNCHANGED ctl
    /\ UNCHANGED <<evt_queue, lock, frame, hist>>

(* key 'q': the lock has become free, stop() runs *)
handle_stop_resume ==
    /\ pc.eng = "stop_wait"
    /\ CanAcquire("eng")
    /\ Commit(stop(Cur))
    /\ pc' = [pc EXCEPT !.eng = "idle"]
    /\ UNCHANGED <<evt_queue, lock, frame, hist>>

(* the idle event *)
handle_end ==
    /\ pc.eng = "idle"
    /\ player.idle_evt
    /\ player' = [player EXCEPT !.idle_evt = FALSE]
    /\ IF _video # None
       THEN put_task("finished_callback")
       ELSE UNCHANGED <<evt_queue, nextId>>
    /\ calls' = <<>>
    /\ UNCHANGED <<_video, part, url, played, last_update, scrobbled, lock, pc,
                   frame, lastRun, drainLeft>>

----------------------------------------------------------------------------
(* The engine itself and the clock *)

(* the file cannot be loaded: no duration is ever reported *)
LoadFail ==
    /\ player.loading
    /\ player' = [player EXCEPT !.loading = FALSE, !.abort = TRUE,
                                !.idle_evt = TRUE]
    /\ calls' = <<>>
    /\ UNCHANGED <<_video, part, url, played, last_update, scrobbled,
                   evt_queue, lock, pc, frame, hist>>

EndOfStream ==
    /\ ~player.abort
    /\ ~player.loading
    /\ player' = [player EXCEPT !.abort = TRUE, !.idle_evt = TRUE, !.time = 0]
    /\ calls' = <<>>
    /\ UNCHANGED <<_video, part, url, played, last_update, scrobbled,
                   evt_queue, lock, pc, frame, hist>>

Advance ==
    /\ ~player.abort
    /\ ~player.loading
    /\ ~player.pause
    /\ \E t \in Positions :
         /\ t > player.time
         /\ player' = [player EXCEPT !.time = t]
    /\ calls' = <<>>
    /\ UNCHANGED <<_video, part, url, played, last_update, scrobbled,
                   evt_queue, lock, pc, frame, hist>>

(* Time passes on the Timer: more than SCROBBLE_INTERVAL seconds since    *)
(* the last restart.                                                       *)
Tick ==
    /\ last_update <= SCROBBLE_INTERVAL
    /\ last_update' = SCROBBLE_INTERVAL + 1
    /\ calls' = <<>>
    /\ UNCHANGED <<_video, part, url, player, played, scrobbled,
                   evt_queue, lock, pc, frame, hist>>

----------------------------------------------------------------------------

Next ==
    \/ UpdateBegin
    \/ DrainStep
    \/ UpdateFinish
    \/ PlayCall
    \/ PlayResume
    \/ SkipToCall
    \/ SetStreams
    \/ StopCall
    \/ TogglePause
    \/ handle_stop
    \/ handle_stop_resume
    \/ handle_prev
    \/ handle_next
    \/ handle_watched
    \/ handle_unwatched
    \/ handle_end
    \/ LoadFail
    \/ EndOfStream
    \/ Advance
    \/ Tick

Spec == Init /\ [][Next]_vars

(* The same program under the scheduling the threads get: a thread that    *)
(* can continue does continue.  Whether the engine loads the file is not   *)
(* up to the scheduler.                                                    *)
LiveSpec ==
    /\ Spec
    /\ WF_vars(DrainStep)
    /\ WF_vars(UpdateFinish)
    /\ WF_vars(PlayResume)
    /\ WF_vars(handle_stop_resume)
    /\ WF_vars(handle_end)

----------------------------------------------------------------------------
(* Properties *)

HasCall(cs, op) == \E i \in 1..Len(cs) : cs[i].op = op
IsPlay(c) == c.op = "play"
IsEngineCmd(c) == c.op \in {"engine_play", "engine_stop"}

EngineCallback ==
    \/ handle_stop
    \/ handle_stop_resume
    \/ handle_prev
    \/ handle_next
    \/ handle_watched
    \/ handle_unwatched
    \/ handle_end

(* C1: every callback registered with the engine only enqueues a task: a   *)
(* step of a callback never waits for or takes the Controller lock, never  *)
(* changes the Session and never issues an engine command.                 *)
C1_CallbacksOnlyEnqueue ==
    [][EngineCallback =>
         /\ pc'.eng # "stop_wait"
         /\ lock' = lock
         /\ _video' = _video
         /\ SelectSeq(calls', IsEngineCmd) = <<>>
         /\ UNCHANGED <<part, url, played, last_update>>]_vars

(* C2: no reachable state has the driving thread holding the lock inside   *)
(* play(), waiting for the duration property, while the engine thread that *)
(* must deliver the property waits for the lock in a callback.             *)
C2_NoLockDeadlock ==
    ~(/\ pc.drv = "play_wait"
      /\ lock.owner = "drv"
      /\ pc.eng = "stop_wait")

(* C3: every play() that waits for the duration property eventually leaves *)
(* the wait and returns, whether or not the engine reports a duration.     *)
C3_PlayReturns ==
    (pc.drv = "play_wait") ~> (pc.drv \in {"idle", "drain"})

(* C4: one update() runs no more tasks than the queue held when its drain  *)
(* began.                                                                  *)
C4_DrainBoundedByEntry == drainLeft >= 0

(* C5: every task put on the queue is run exactly once and in the order of *)
(* the puts: the tasks still queued are exactly the ones put after the     *)
(* last task run, in put order, and a task only runs while the driving     *)
(* thread holds the lock.                                                  *)
C5_FifoExactlyOnce ==
    /\ nextId = lastRun + Len(evt_queue) + 1
    /\ \A i \in 1..Len(evt_queue) : evt_queue[i].id = lastRun + i
    /\ pc.drv \in {"drain", "play_wait"} => lock.owner = "drv"

(* C5 witness: update() has run two tasks in order, the second one put on  *)
(* the queue while the drain was in progress.                              *)
C5_Witness ==
    /\ pc.drv = "drain"
    /\ drainLeft < 0
    /\ lastRun = 2

(* C6: no exception of a deferred task propagates out of update().         *)
C6_NoExceptionOutOfUpdate == [][DrainStep => ~HasCall(calls', "raise")]_vars

(* C7: when finished_callback() finds the item multi-part with no next     *)
(* part, and the parent has a next item and auto-play is on, it requests   *)
(* playback of the first sub-item of the next item.                        *)
C7_FinalPartAdvances ==
    \A i \in 1..Len(calls) :
        (/\ calls[i].op = "select_part_fail"
         /\ has_next(calls[i].v)
         /\ auto_play)
        => \E j \in 1..Len(calls) : calls[j] = Call("play", get_next(calls[i].v), 0)

FinishedRuns ==
    /\ lastRun' # lastRun
    /\ Head(evt_queue).func = "finished_callback"

(* C8: when finished_callback() runs with a Session whose item is          *)
(* multi-part and select_part of the next index succeeds, the part index   *)
(* grows by exactly 1 and play() is invoked once, with the same video and  *)
(* offset 0, and with no other video.                                      *)
C8_NextPartReplaysSameVideo ==
    [][(FinishedRuns /\ _video # None /\ HasCall(calls', "select_part_ok"))
         => /\ part' = part + 1
            /\ SelectSeq(calls', IsPlay) = <<Call("play", _video, 0)>>]_vars

(* C8 witness: finished_callback() has selected part 2 and is replaying    *)
(* the Session's video.                                                    *)
C8_Witness ==
    /\ HasCall(calls, "select_part_ok")
    /\ part = 2
    /\ pc.drv = "play_wait"
    /\ frame.v = _video

(* C9: whenever a Session is established for another top-level video, the  *)
(* part index is 1.                                                        *)
C9_PartResets ==
    [][(_video' # _video /\ _video' # None) => part' = 1]_vars

(* C10: set_played() is called exactly once for an item: once the         *)
(* scrobble check of update() has marked the Session's item played, no     *)
(* later step for that item, the finished_callback() of its end of stream  *)
(* included, calls set_played() again.                                     *)
C10_SetPlayedOnce ==
    [][(scrobbled /\ FinishedRuns) =>
         \A i \in 1..Len(calls') :
             ~(calls'[i].op = "set_played" /\ calls'[i].n = 1)]_vars

IsScrobble(c) == c.op \in {"set_played", "update_position"}

(* C11: the scrobble step of update() calls set_played() or                *)
(* update_position() only from a state with an active Session, the engine  *)
(* not aborted, playback not paused, the item not yet marked played and    *)
(* more than SCROBBLE_INTERVAL elapsed on the timer, and the same update() *)
(* restarts the timer, so the next scrobble action needs the interval to   *)
(* elapse again.                                                           *)
C11_ScrobbleGated ==
    [][(UpdateFinish /\ SelectSeq(calls', IsScrobble) # <<>>) =>
         /\ _video # None
         /\ ~player.abort
         /\ ~player.pause
         /\ ~played
         /\ last_update > SCROBBLE_INTERVAL
         /\ last_update' = 0
         /\ Len(calls') = 1]_vars

(* C11 witness: update() has just pushed a position update for the playing *)
(* Session and restarted the timer.                                        *)
C11_Witness ==
    /\ HasCall(calls, "update_position")
    /\ _video # None
    /\ ~player.pause
    /\ last_update = 0
    /\ pc.drv = "idle"

ScrobbleDue ==
    /\ _video # None
    /\ ~player.abort
    /\ ~player.pause
    /\ ~played
    /\ last_update > SCROBBLE_INTERVAL

(* C12: update() calls update_position(position) only when position > 300  *)
(* and position/duration < 0.95; when a scrobble is due, a position at or  *)
(* below 300 with ratio below 0.95 gives no call at all, and a ratio of    *)
(* 0.95 or more gives set_played() and no update_position().               *)
C12_PositionThresholds ==
    [][UpdateFinish =>
         /\ HasCall(calls', "update_position") =>
               /\ player.time > 300
               /\ player.time * 100 < 95 * Duration
               /\ calls' = <<Call("update_position", _video, player.time)>>
         /\ (ScrobbleDue /\ player.time <= 300 /\ player.time * 100 < 95 * Duration)
               => calls' = <<>>
         /\ (ScrobbleDue /\ player.time * 100 >= 95 * Duration)
               => calls' = <<Call("set_played", _video, 1)>>]_vars

(* C12 witness: update() has marked the item played at exactly 95 percent  *)
(* of its duration.                                                        *)
C12_Witness ==
    /\ calls = <<Call("set_played", _video, 1)>>
    /\ player.time * 100 = 95 * Duration
    /\ pc.drv = "idle"
    /\ last_update = 0

(* C13: a play(video) for which the video resolves no playback URL changes *)
(* nothing: the Session, the part index, the recorded URL and the engine   *)
(* are as before the call.                                                 *)
C13_FailedPlayChangesNothing ==
    [][(pc.drv = "idle" /\ ~HasCall(calls', "engine_play") /\ PlayCall) =>
          UNCHANGED <<_video, part, url, player>>]_vars

(* C14: skip_to(key) returns success exactly when playback has moved to    *)
(* the first sub-item of the sibling the key resolves to, and failure only *)
(* when the key resolves to no sibling.                                    *)
C14_SkipToSuccessIffTransition ==
    \A i \in 1..Len(calls) :
        /\ calls[i].op = "return_true" => _video = calls[i].v
        /\ calls[i].op = "return_false" => get_from_key(calls[i].v) = None

CurState == get_state(Cur)

(* a step in which stop() runs as a direct call, on either thread *)
DirectStop ==
    \/ StopCall
    \/ handle_stop /\ pc'.eng = "idle"
    \/ handle_stop_resume

(* a step of play(video) by the driving thread that finds no URL *)
PlayFails ==
    /\ pc.drv = "idle"
    /\ ~HasCall(calls', "engine_play")
    /\ PlayCall

(* C15: get_state() is stopped when the engine is aborted, else paused     *)
(* when the pause flag is set, else playing; it is playing right after a   *)
(* play() that succeeded, stopped right after a stop() that acted on a     *)
(* Session, and unchanged by a play() that found no URL and by a stop()    *)
(* that was a no-op.                                                       *)
C15_StateReflectsTransition ==
    [][/\ CurState' \in {"stopped", "paused", "playing"}
       /\ player'.abort => CurState' = "stopped"
       /\ (~player'.abort /\ player'.pause) => CurState' = "paused"
       /\ (~player'.abort /\ ~player'.pause) => CurState' = "playing"
       /\ PlayResume => CurState' = "playing"
       /\ (DirectStop /\ HasCall(calls', "engine_stop")) => CurState' = "stopped"
       /\ (DirectStop /\ ~HasCall(calls', "engine_stop")) => CurState' = CurState
       /\ PlayFails => CurState' = CurState]_vars

(* C15 witness: a stop() has just acted on the Session an earlier play()   *)
(* established, and get_state() is stopped.                                *)
C15_Witness ==
    /\ HasCall(calls, "engine_stop")
    /\ url # None
    /\ _video = None
    /\ CurState = "stopped"
    /\ pc.drv = "idle"

(* C16: a stop() called with no active Session, or with the engine already *)
(* aborted, issues no engine command, raises nothing and leaves the        *)
(* Session, the pause flag and the rest of the engine as they were.        *)
C16_StopNoOp ==
    [][(DirectStop /\ (_video = None \/ player.abort)) =>
          /\ calls' = <<>>
          /\ UNCHANGED <<_video, player, part, url, played>>]_vars

(* C16 witness: a first stop() has just acted, so that a second stop()     *)
(* right after it finds no Session and the engine aborted.                 *)
C16_Witness ==
    /\ calls = <<Call("engine_stop", 0, 0)>>
    /\ _video = None
    /\ player.abort
    /\ pc.drv = "idle"
    /\ lock = Free

(* C17: set_streams() with the empty subtitle id, during a Session, sets   *)
(* the engine's subtitle selection to 'no' without a lookup in the         *)
(* subtitle table and without raising.                                     *)
C17_EmptySubtitleIdDisables ==
    [][(_video # None /\ SetStreamsWith(NoUid, "")) =>
          /\ player'.sub = -1
          /\ ~HasCall(calls', "subtitle_seq")
          /\ ~HasCall(calls', "raise")]_vars

(* C18: no thread observes the intermediate state of a play() in flight:   *)
(* while play() holds the lock with the engine loading a video and the     *)
(* Session still the one to be replaced, no callback reads the Session.    *)
C18_PlayIntermediateUnobserved ==
    [][handle_end => ~(/\ pc.drv = "play_wait"
                       /\ player.loading
                       /\ _video # None
                       /\ frame.v # _video)]_vars

(* C19: a finished_callback task run after the Session was replaced by the *)
(* play() of another video than the one whose end of stream queued it does *)
(* not mark the new video played and does not advance away from it.        *)
C19_FinishedTaskOnlyItsItem ==
    [][(FinishedRuns /\ _video # None /\ Head(evt_queue).ended # _video) =>
          /\ ~HasCall(calls', "set_played")
          /\ ~HasCall(calls', "select_part_ok")
          /\ ~HasCall(calls', "play")]_vars

(* a step of a play() or skip_to() that a caller invoked *)
ExplicitPlay ==
    /\ pc.drv \in {"idle", "play_wait"}
    /\ PlayResume \/ PlayCall \/ SkipToCall

(* C20: a stop() that acts leaves the Session empty, and while the Session *)
(* is empty no step other than an explicit play() (the idle event of the   *)
(* stop and the tasks queued before it included) calls set_played() or     *)
(* play() or sets a Session.                                               *)
C20_StopNoAutoAdvance ==
    [][/\ HasCall(calls', "engine_stop") => _video' = None
       /\ (_video = None /\ ~ExplicitPlay) =>
             /\ _video' = None
             /\ ~HasCall(calls', "set_played")
             /\ ~HasCall(calls', "play")]_vars

(* C20 witness: stop() has acted, its idle event has been handled without  *)
(* a new task, and update() is about to run a finished_callback task that  *)
(* was queued before the stop.                                             *)
C20_Witness ==
    /\ _video = None
    /\ player.abort
    /\ ~player.idle_evt
    /\ pc.drv = "drain"
    /\ Len(evt_queue) = 1
    /\ Head(evt_queue).func = "finished_callback"
    /\ Head(evt_queue).ended # None

====
